---- MODULE Spec2Model ----
(***************************************************************************)
(* Ascending Fitness backend (backend/server.js) and the SQLite ->         *)
(* PostgreSQL copier (migrate-db.js) as one state machine.                 *)
(*                                                                         *)
(* The store is the two relations created by initDb; a statement is one    *)
(* atomic step and fails exactly when it violates a constraint declared in *)
(* the schema (PRIMARY KEY, UNIQUE, NOT NULL, REFERENCES, VARCHAR(n)).     *)
(* Every `await pool.query` of a handler is a separate step, so requests   *)
(* of different clients and the copier interleave between statements.      *)
(***************************************************************************)
EXTENDS Integers, Sequences, FiniteSets, TLC

VARIABLES
    users,      \* relation users: a set of rows
    profiles,   \* relation profiles: a set of rows
    seq,        \* users_id_seq: the value the next nextval() returns
    now,        \* wall clock, in hours
    pc,         \* per client: where its request in flight stands
    loc,        \* per client: the request in flight and the handler's locals
    resp,       \* per client: the response to the last request
    held,       \* per client: the token the client keeps, <<>> or <<token>>
    nreq,       \* number of requests started so far
    legacy,     \* the SQLite data set the copier reads
    mig         \* the copier: its position and the rows it fetched

vars == <<users, profiles, seq, now, pc, loc, resp, held, nreq, legacy, mig>>

----------------------------------------------------------------------------
(* Bounds of the model *)

MaxRequests == 3      \* requests started in one behaviour
MaxTime == 24         \* the clock stops here
TickHours == 24       \* granularity of the clock

Procs == {"c1", "c2"}

(* Program constants *)

TokenTTL == 24        \* expiresIn: '24h'
SaltRounds == 10      \* bcrypt cost factor

----------------------------------------------------------------------------
(* JavaScript / SQL values *)

NULL == "NULL"        \* JS null, SQL NULL
UNDEF == "UNDEF"      \* JS undefined, an absent key of the body
NoTime == -1          \* a NULL timestamp of the legacy store

\* !v for the string-like inputs of the handlers
Falsy(v) == v \in {UNDEF, NULL, ""}

\* node-postgres sends undefined parameters as NULL
PgParam(v) == IF v = UNDEF THEN NULL ELSE v

EmptyObject == [k \in {} |-> NULL]

----------------------------------------------------------------------------
(* Schema: CREATE TABLE users / profiles *)

ProfileCols == {"age", "medications"}

\* declared width of the text columns; 0 stands for TEXT (unbounded)
ColWidth(col) ==
    CASE col = "name" -> 255
      [] col = "email" -> 255
      [] col = "password" -> 255
      [] col = "role" -> 50
      [] col = "phone" -> 20
      [] col = "age" -> 10
      [] col = "medications" -> 0

\* a text value is accepted by a column: NULL always, otherwise within width
Fits(col, v) == v = NULL \/ ColWidth(col) = 0 \/ Len(v) <= ColWidth(col)

\* faulty variant: email is not declared UNIQUE
UserRowOkNoUnique(others, r) ==
    /\ r.name # NULL /\ r.email # NULL /\ r.password.of # NULL
    /\ Fits("name", r.name) /\ Fits("email", r.email)
    /\ Fits("role", r.role) /\ Fits("phone", r.phone)
    /\ \A o \in others : o.id # r.id

\* the users constraints a candidate row must meet against the other rows
UserRowOk(others, r) ==
    /\ r.name # NULL /\ r.email # NULL /\ r.password.of # NULL
    /\ Fits("name", r.name) /\ Fits("email", r.email)
    /\ Fits("role", r.role) /\ Fits("phone", r.phone)
    /\ \A o \in others : o.id # r.id
    /\ \A o \in others : o.email # r.email

\* the profiles constraints a candidate row must meet
ProfileRowOk(U, others, r) ==
    /\ \E u \in U : u.id = r.user_id
    /\ \A o \in others : o.user_id # r.user_id
    /\ \A c \in ProfileCols : Fits(c, r[c])

EmptyProfile(uid) == [user_id |-> uid, age |-> NULL, medications |-> NULL]

----------------------------------------------------------------------------
(* bcryptjs and jsonwebtoken *)

Hash(password) == [alg |-> "bcrypt", cost |-> SaltRounds, of |-> password]

Compare(password, hashed) == hashed.alg = "bcrypt" /\ hashed.of = password

\* jwt.sign(payload, secret, { expiresIn: '24h' })
Sign(payload, t) ==
    [id |-> payload.id, email |-> payload.email, role |-> payload.role,
     iat |-> t, exp |-> t + TokenTTL, sig |-> "server"]

\* faulty variant: the expiry is not looked at
VerifyIgnoringExpiry(token, t) == token.sig = "server"

\* jwt.verify: err when the signature is not the server's or the token expired
VerifyOk(token, t) == token.sig = "server" /\ t < token.exp

\* the decoded claims
Decode(token) ==
    [id |-> token.id, email |-> token.email, role |-> token.role,
     iat |-> token.iat, exp |-> token.exp]

----------------------------------------------------------------------------
(* Inputs the clients send *)

Emails == {"a@x.com", "b@x.com"}
LongAge == "12345678901"   \* 11 characters, one more than age VARCHAR(10)

\* a client without phone that takes the default role, a trainer with a
\* phone, and a body without a name
RegisterBodies ==
    { [name |-> "A", email |-> "a@x.com", password |-> "p1", phone |-> UNDEF, role |-> UNDEF],
      [name |-> "A", email |-> "b@x.com", password |-> "p1", phone |-> "555", role |-> "trainer"],
      [name |-> UNDEF, email |-> "a@x.com", password |-> "p1", phone |-> UNDEF, role |-> UNDEF] }

LoginBodies ==
    { [email |-> "a@x.com", password |-> "p1"], [email |-> "a@x.com", password |-> "p2"],
      [email |-> "b@x.com", password |-> "p1"], [email |-> UNDEF, password |-> "p1"] }

\* user patches that leave out at most one of name, email and phone
UserPatches ==
    {u \in [name : {UNDEF, "B"}, email : Emails \cup {UNDEF}, phone : {UNDEF, "556"}] :
        Cardinality({k \in {"name", "email", "phone"} : u[k] = UNDEF}) <= 1}

PatchValues(col) ==
    IF col = "age" THEN {"30", LongAge} ELSE {NULL}

\* every object whose keys are profile columns
ProfilePatches ==
    UNION { {f \in [D -> UNION {PatchValues(c) : c \in D}] :
                \A c \in D : f[c] \in PatchValues(c)} : D \in SUBSET ProfileCols }

\* a key that carries statement text of its own: spliced after SET it ends
\* the assignment, brings its own WHERE and comments out the handler's
InjectedKey == "age = $1 WHERE user_id <> $2 --"

\* patches whose keys are not the columns a client is meant to set
CraftedPatches ==
    { [k \in {InjectedKey} |-> "99"], [k \in {"user_id"} |-> "2"] }

\* bodies with one patch, with none, and with a user patch beside a profile patch
UpdateBodies ==
    {[user |-> <<u>>, profile |-> <<>>] : u \in UserPatches}
      \cup {[user |-> <<>>, profile |-> <<f>>] : f \in ProfilePatches \cup CraftedPatches}
      \cup {[user |-> <<>>, profile |-> <<>>]}
      \cup {[user |-> <<u>>, profile |-> <<[age |-> "30"]>>] :
                u \in {x \in UserPatches : x.phone = UNDEF}}

\* the Authorization header, split at blanks: absent, a scheme alone, or a
\* scheme and a token; the token is the client's own or one signed by a
\* different secret
Headers(p) ==
    {<<>>, <<"Bearer">>}
      \cup {<<"Bearer", held[p][i]>> : i \in 1..Len(held[p])}
      \cup {<<"Bearer", [held[p][i] EXCEPT !.sig = "other"]>> : i \in 1..Len(held[p])}

----------------------------------------------------------------------------
(* Responses *)

NoLoc == [none |-> TRUE]
\* a response: the route, the status and the JSON body; hdr is the
\* Authorization header the middleware refused (kept for the properties)
NoResp == [op |-> "none", status |-> 0, message |-> "",
           token |-> <<>>, user |-> <<>>, profile |-> <<>>, hdr |-> <<>>]

Json(op, status, message) ==
    [op |-> op, status |-> status, message |-> message,
     token |-> <<>>, user |-> <<>>, profile |-> <<>>, hdr |-> <<>>]

Refused(op, auth, hdr) == [Json(op, auth.status, auth.message) EXCEPT !.hdr = hdr]

\* res.status(...).json(...) ends the request of client p
Answer(p, r) ==
    /\ resp' = [resp EXCEPT ![p] = r]
    /\ pc' = [pc EXCEPT ![p] = "idle"]
    /\ loc' = [loc EXCEPT ![p] = NoLoc]
    /\ held' = [held EXCEPT ![p] = IF r.token # <<>> THEN r.token ELSE @]

\* the request of client p goes on to its next statement, not answered yet
Goto(p, label, l) ==
    /\ pc' = [pc EXCEPT ![p] = label]
    /\ loc' = [loc EXCEPT ![p] = l]
    /\ resp' = [resp EXCEPT ![p] = NoResp]
    /\ UNCHANGED held

\* a client starts a request
Begin(p) ==
    /\ pc[p] = "idle"
    /\ nreq < MaxRequests
    /\ nreq' = nreq + 1

----------------------------------------------------------------------------
(* POST /api/auth/register *)

\* INSERT INTO users (name, email, password, role, phone) VALUES (...)
\* RETURNING ...: id from the sequence, timestamps from their defaults
NewUserRow(id, name, email, hashedPassword, role, phone, t) ==
    [id |-> id, name |-> PgParam(name), email |-> PgParam(email),
     password |-> hashedPassword, role |-> PgParam(role), phone |-> PgParam(phone),
     created_at |-> t, updated_at |-> t]

\* the request arrives: destructuring with role = 'client', the validation,
\* SELECT id FROM users WHERE email = $1, and bcrypt.hash
RegisterStart(p, body) ==
    /\ Begin(p)
    /\ UNCHANGED <<users, profiles, seq, now, legacy, mig>>
    /\ LET role == IF body.role = UNDEF THEN "client" ELSE body.role
           existingUser == {u \in users : u.email = body.email}
       IN IF Falsy(body.name) \/ Falsy(body.email) \/ Falsy(body.password)
          THEN Answer(p, Json("register", 400, "Name, email, and password are required"))
          ELSE IF Cardinality(existingUser) > 0
               THEN Answer(p, Json("register", 400, "Email already registered"))
               ELSE Goto(p, "reg_insert_user",
                         [name |-> body.name, email |-> body.email,
                          password |-> Hash(body.password), phone |-> body.phone,
                          role |-> role])

\* INSERT INTO users ... RETURNING id, name, email, role, created_at
RegisterInsertUser(p) ==
    /\ pc[p] = "reg_insert_user"
    /\ UNCHANGED <<profiles, now, nreq, legacy, mig>>
    /\ seq' = seq + 1
    /\ LET l == loc[p]
           row == NewUserRow(seq, l.name, l.email, l.password, l.role, l.phone, now)
       IN IF UserRowOk(users, row)
          THEN /\ users' = users \cup {row}
               /\ Goto(p, "reg_insert_profile",
                       [newUser |-> [id |-> row.id, name |-> row.name,
                                     email |-> row.email, role |-> row.role,
                                    created_at |-> row.created_at]])
          ELSE /\ UNCHANGED users
               /\ Answer(p, Json("register", 500, "Server error during registration"))

\* the response of a successful registration
Registered(newUser, t) ==
    [op |-> "register", status |-> 201, message |-> "User registered successfully",
     token |-> <<Sign([id |-> newUser.id, email |-> newUser.email,
                       role |-> newUser.role], t)>>,
     user |-> <<[id |-> newUser.id, name |-> newUser.name, email |-> newUser.email,
                 role |-> newUser.role, createdAt |-> newUser.created_at]>>,
     profile |-> <<>>, hdr |-> <<>>]

\* faulty variant: the result of the profile insert is not awaited: 201 either way
RegisterInsertProfileUnchecked(p) ==
    /\ pc[p] = "reg_insert_profile"
    /\ UNCHANGED <<users, seq, now, nreq, legacy, mig>>
    /\ LET row == EmptyProfile(loc[p].newUser.id)
       IN /\ profiles' = IF ProfileRowOk(users, profiles, row)
                         THEN profiles \cup {row} ELSE profiles
          /\ Answer(p, Registered(loc[p].newUser, now))

\* INSERT INTO profiles (user_id) VALUES ($1), then jwt.sign and 201
RegisterInsertProfile(p) ==
    /\ pc[p] = "reg_insert_profile"
    /\ UNCHANGED <<users, seq, now, nreq, legacy, mig>>
    /\ LET row == EmptyProfile(loc[p].newUser.id)
       IN IF ProfileRowOk(users, profiles, row)
          THEN /\ profiles' = profiles \cup {row}
               /\ Answer(p, Registered(loc[p].newUser, now))
          ELSE /\ UNCHANGED profiles
               /\ Answer(p, Json("register", 500, "Server error during registration"))

----------------------------------------------------------------------------
(* POST /api/auth/login *)

LoggedIn(user, t) ==
    [op |-> "login", status |-> 200, message |-> "Login successful",
     token |-> <<Sign([id |-> user.id, email |-> user.email, role |-> user.role], t)>>,
     user |-> <<[id |-> user.id, name |-> user.name, email |-> user.email,
                 role |-> user.role]>>,
     profile |-> <<>>, hdr |-> <<>>]

\* faulty variant: an unknown email is told apart from a wrong password
LoginOutcomeLeaky(rows, password, t) ==
    IF rows = {}
    THEN Json("login", 404, "User not found")
    ELSE LET user == CHOOSE u \in rows : TRUE
         IN IF ~ Compare(password, user.password)
            THEN Json("login", 401, "Invalid email or password")
            ELSE LoggedIn(user, t)

\* the outcome of the handler once SELECT * FROM users WHERE email = $1 has
\* returned `rows`: bcrypt.compare, jwt.sign and the response
LoginOutcome(rows, password, t) ==
    IF rows = {}
    THEN Json("login", 401, "Invalid email or password")
    ELSE LET user == CHOOSE u \in rows : TRUE
         IN IF ~ Compare(password, user.password)
            THEN Json("login", 401, "Invalid email or password")
            ELSE LoggedIn(user, t)

\* the request arrives: the validation, then the query and its outcome
LoginRequest(p, body) ==
    /\ Begin(p)
    /\ UNCHANGED <<users, profiles, seq, now, legacy, mig>>
    /\ IF Falsy(body.email) \/ Falsy(body.password)
       THEN Answer(p, Json("login", 400, "Email and password are required"))
       ELSE Answer(p, LoginOutcome({u \in users : u.email = body.email},
                                   body.password, now))

----------------------------------------------------------------------------
(* authenticateToken *)

\* authHeader && authHeader.split(' ')[1]
BearerToken(hdr) == IF Len(hdr) >= 2 THEN <<hdr[2]>> ELSE <<>>

\* status 0 stands for next(): the handler runs with req.user = user
Authenticate(hdr, t) ==
    LET token == BearerToken(hdr)
    IN IF token = <<>>
       THEN [status |-> 401, message |-> "Access token required", user |-> <<>>]
       ELSE IF ~ VerifyOk(token[1], t)
            THEN [status |-> 403, message |-> "Invalid or expired token", user |-> <<>>]
            ELSE [status |-> 0, message |-> "", user |-> <<Decode(token[1])>>]

----------------------------------------------------------------------------
(* GET /api/profile *)

\* SELECT id, name, email, role, phone, created_at, updated_at FROM users WHERE id = $1
SelectUserById(U, id) ==
    {[id |-> u.id, name |-> u.name, email |-> u.email, role |-> u.role,
      phone |-> u.phone, created_at |-> u.created_at, updated_at |-> u.updated_at] :
        u \in {x \in U : x.id = id}}

\* the request arrives: the middleware, then the first query
GetStart(p, hdr) ==
    /\ Begin(p)
    /\ UNCHANGED <<users, profiles, seq, now, legacy, mig>>
    /\ LET auth == Authenticate(hdr, now)
       IN IF auth.status # 0
          THEN Answer(p, Refused("get", auth, hdr))
          ELSE Goto(p, "get_profile",
                    [user |-> auth.user[1],
                     userResult |-> SelectUserById(users, auth.user[1].id)])

\* faulty variant: a user without a profile row is reported as not found
GetOutcomeNeedsProfile(userResult, profileResult) ==
    IF userResult = {} \/ profileResult = {}
    THEN Json("get", 404, "User not found")
    ELSE LET user == CHOOSE u \in userResult : TRUE
             profile == CHOOSE r \in profileResult : TRUE
         IN [op |-> "get", status |-> 200, message |-> "",
             token |-> <<>>,
             user |-> <<[id |-> user.id, name |-> user.name, email |-> user.email,
                         role |-> user.role, phone |-> user.phone,
                         createdAt |-> user.created_at,
                         updatedAt |-> user.updated_at]>>,
             profile |-> <<profile>>, hdr |-> <<>>]

\* the response once both results are in
GetOutcome(userResult, profileResult) ==
    IF userResult = {}
    THEN Json("get", 404, "User not found")
    ELSE LET user == CHOOSE u \in userResult : TRUE
             profile == IF profileResult = {} THEN EmptyObject
                        ELSE CHOOSE r \in profileResult : TRUE
         IN [op |-> "get", status |-> 200, message |-> "",
             token |-> <<>>,
             user |-> <<[id |-> user.id, name |-> user.name, email |-> user.email,
                         role |-> user.role, phone |-> user.phone,
                         createdAt |-> user.created_at,
                         updatedAt |-> user.updated_at]>>,
             profile |-> <<profile>>, hdr |-> <<>>]

\* SELECT * FROM profiles WHERE user_id = $1, then the response
GetProfile(p) ==
    /\ pc[p] = "get_profile"
    /\ UNCHANGED <<users, profiles, seq, now, nreq, legacy, mig>>
    /\ Answer(p, GetOutcome(loc[p].userResult,
                            {r \in profiles : r.user_id = loc[p].user.id}))

----------------------------------------------------------------------------
(* PUT /api/profile *)

\* faulty variant: null values are not filtered out
EligibleKeysKeepNull(patch) == {k \in DOMAIN patch : patch[k] # UNDEF}

\* the keys of the profile patch that reach the statement
EligibleKeys(patch) == {k \in DOMAIN patch : patch[k] # UNDEF /\ patch[k] # NULL}

Updated == Json("put", 200, "Profile updated successfully")
UpdateError == Json("put", 500, "Server error updating profile")

\* the handler after its user part: the profile statement, or the response
ProfilePart(p) ==
    LET profileData == loc[p].body.profile
    IN IF profileData # <<>> /\ EligibleKeys(profileData[1]) # {}
       THEN Goto(p, "put_profile", loc[p])
       ELSE Answer(p, Updated)

\* the email check is issued when the patch names an email other than the token's
NeedsEmailCheck(email, tokenEmail) == ~ Falsy(email) /\ email # tokenEmail

\* the bodies a request with header hdr is tried with: one body when the
\* middleware answers, since the body is then never read
BodiesWith(hdr) ==
    IF Authenticate(hdr, now).status # 0
    THEN {[user |-> <<>>, profile |-> <<>>]}
    ELSE UpdateBodies

\* SELECT id FROM users WHERE email = $1 AND id != $2
EmailCheck(U, email, id) == {u \in U : u.email = email /\ u.id # id}

\* the request arrives: the middleware, then the handler up to its first
\* statement that writes, the email check included
PutStart(p, hdr, body) ==
    /\ Begin(p)
    /\ UNCHANGED <<users, profiles, seq, now, legacy, mig>>
    /\ LET auth == Authenticate(hdr, now)
           \* taken: the patch names an email that another user's row holds
           \* as the request arrives (kept for the properties, read by no step)
           l == [user |-> auth.user[1], body |-> body,
                 taken |-> /\ body.user # <<>>
                           /\ EmailCheck(users, body.user[1].email,
                                         auth.user[1].id) # {}]
       IN IF auth.status # 0
          THEN Answer(p, Refused("put", auth, hdr))
          ELSE IF body.user # <<>>
               THEN IF NeedsEmailCheck(body.user[1].email, auth.user[1].email)
                       /\ Cardinality(EmailCheck(users, body.user[1].email,
                                                 auth.user[1].id)) > 0
                    THEN Answer(p, Json("put", 400,
                                        "Email already in use by another account"))
                    ELSE Goto(p, "put_user", l)
               ELSE IF body.profile # <<>> /\ EligibleKeys(body.profile[1]) # {}
                    THEN Goto(p, "put_profile", l)
                    ELSE Answer(p, Updated)

\* UPDATE users SET name = $1, email = $2, phone = $3,
\*   updated_at = CURRENT_TIMESTAMP WHERE id = $4
\* the relation after the statement, or ok = FALSE when a constraint rejects it
UpdateUsers(U, patch, id, t) ==
    LET target == {u \in U : u.id = id}
        new == {[u EXCEPT !.name = PgParam(patch.name), !.email = PgParam(patch.email),
                          !.phone = PgParam(patch.phone), !.updated_at = t] : u \in target}
    IN IF \A r \in new : UserRowOk(U \ target, r)
       THEN [ok |-> TRUE, users |-> (U \ target) \cup new]
       ELSE [ok |-> FALSE, users |-> U]

PutUser(p) ==
    /\ pc[p] = "put_user"
    /\ UNCHANGED <<profiles, seq, now, nreq, legacy, mig>>
    /\ LET r == UpdateUsers(users, loc[p].body.user[1], loc[p].user.id, now)
       IN IF r.ok
          THEN /\ users' = r.users
               /\ ProfilePart(p)
          ELSE /\ UNCHANGED users
               /\ Answer(p, UpdateError)

\* the orders in which Object.entries may yield the eligible keys
Orders(keys) ==
    {o \in [1..Cardinality(keys) -> keys] :
        \A i, j \in DOMAIN o : i # j => o[i] # o[j]}

RECURSIVE Join(_, _)
\* fields.join(', ')
Join(fields, sep) ==
    IF fields = <<>> THEN ""
    ELSE IF Len(fields) = 1 THEN fields[1]
    ELSE fields[1] \o sep \o Join(Tail(fields), sep)

\* the statement the handler builds from the eligible keys in the order given,
\* each key spliced into the text as it came, and the parameters it binds;
\* node-postgres sends every parameter as text
BuildQuery(patch, order, userId) ==
    LET fields == [i \in 1..Len(order) |-> order[i] \o " = $" \o ToString(i)]
        values == [i \in 1..Len(order) |-> patch[order[i]]]
        paramCount == Len(order) + 1
    IN [text |-> "UPDATE profiles SET " \o Join(fields, ", ")
                   \o " WHERE user_id = $" \o ToString(paramCount),
        values |-> Append(values, ToString(userId))]

(* PostgreSQL, as far as the statements of the handler need it *)

\* a token ends before position i of the text: at its end, at a blank, at
\* "," "=" "<>" and at the "--" that opens a comment
EndsAt(text, i) ==
    \/ i > Len(text)
    \/ SubSeq(text, i, i) \in {" ", ",", "="}
    \/ (i < Len(text) /\ SubSeq(text, i, i + 1) \in {"<>", "--"})

RECURSIVE Lex(_)
\* the tokens of a statement text: words between blanks, "," "=" and "<>" on
\* their own, the rest of the line after "--" dropped
Lex(text) ==
    IF text = "" THEN <<>>
    ELSE IF Len(text) >= 2 /\ SubSeq(text, 1, 2) = "--" THEN <<>>
    ELSE IF Len(text) >= 2 /\ SubSeq(text, 1, 2) = "<>"
         THEN <<"<>">> \o Lex(SubSeq(text, 3, Len(text)))
    ELSE IF Head(text) = " " THEN Lex(Tail(text))
    ELSE IF Head(text) \in {",", "="} THEN <<Head(text)>> \o Lex(Tail(text))
    ELSE LET n == CHOOSE i \in 1..Len(text) :
                     /\ EndsAt(text, i + 1)
                     /\ \A j \in 2..i : ~ EndsAt(text, j)
         IN <<SubSeq(text, 1, n)>> \o Lex(SubSeq(text, n + 1, Len(text)))

\* the integer a text stands for, -1 when it is no integer (ids stay below 10)
ParseInt(text) ==
    IF \E n \in 0..9 : ToString(n) = text
    THEN CHOOSE n \in 0..9 : ToString(n) = text
    ELSE -1

\* the number of the parameter a token names, 0 when it names none
ParamIndex(tok) ==
    IF Len(tok) = 2 /\ Head(tok) = "$" /\ ParseInt(Tail(tok)) > 0
    THEN ParseInt(Tail(tok))
    ELSE 0

SyntaxError == [ok |-> FALSE, set |-> <<>>, where |-> <<>>]

RECURSIVE ParseSet(_, _, _)
\* col = $k {, col = $k} WHERE col (= | <>) $k, from token i on
ParseSet(t, i, set) ==
    IF i + 3 > Len(t) \/ t[i + 1] # "=" \/ ParamIndex(t[i + 2]) = 0
    THEN SyntaxError
    ELSE LET set1 == Append(set, [col |-> t[i], param |-> ParamIndex(t[i + 2])])
         IN IF t[i + 3] = "," THEN ParseSet(t, i + 4, set1)
            ELSE IF /\ t[i + 3] = "WHERE"
                    /\ Len(t) = i + 6
                    /\ t[i + 5] \in {"=", "<>"}
                    /\ ParamIndex(t[i + 6]) > 0
                 THEN [ok |-> TRUE, set |-> set1,
                       where |-> <<[col |-> t[i + 4], op |-> t[i + 5],
                                    param |-> ParamIndex(t[i + 6])]>>]
                 ELSE SyntaxError

\* UPDATE profiles SET ... WHERE ...
ParseUpdate(t) ==
    IF Len(t) >= 3 /\ SubSeq(t, 1, 3) = <<"UPDATE", "profiles", "SET">>
    THEN ParseSet(t, 4, <<>>)
    ELSE SyntaxError

\* the statement is run with the parameters bound: the relation after it, or
\* ok = FALSE when it is rejected. Rejected are a text that does not parse, a
\* name that is no column, a column assigned twice, a parameter bound and not
\* used (or used and not bound), a parameter used both as text and as
\* integer, a text that is no integer where one is needed, and a row that
\* breaks a constraint. A value wider than its column is rejected when a row
\* is assigned it; when no row matches the store may reject the statement or
\* run it to no effect, so both outcomes are kept
ExecUpdate(U, P, query) ==
    LET st == ParseUpdate(Lex(query.text))
        values == query.values
        error == [ok |-> FALSE, profiles |-> P]
    IN IF ~ st.ok THEN {error}
       ELSE
       LET set == st.set
           where == st.where[1]
           intParams == {set[i].param : i \in {j \in DOMAIN set : set[j].col = "user_id"}}
                          \cup (IF where.col = "user_id" THEN {where.param} ELSE {})
           textParams == {set[i].param : i \in {j \in DOMAIN set : set[j].col # "user_id"}}
                          \cup (IF where.col # "user_id" THEN {where.param} ELSE {})
           wellFormed ==
               /\ \A i \in DOMAIN set : set[i].col \in ProfileCols \cup {"user_id"}
               /\ where.col \in ProfileCols \cup {"user_id"}
               /\ \A i, j \in DOMAIN set : i # j => set[i].col # set[j].col
               /\ intParams \cup textParams = 1..Len(values)
               /\ intParams \cap textParams = {}
               /\ \A k \in intParams : ParseInt(values[k]) >= 0
       IN IF ~ wellFormed THEN {error}
          ELSE
          LET Value(k) == IF k \in intParams THEN ParseInt(values[k]) ELSE values[k]
              \* a comparison with NULL is not true
              Matches(r) == IF where.col # "user_id" /\ r[where.col] = NULL THEN FALSE
                            ELSE IF where.op = "=" THEN r[where.col] = Value(where.param)
                            ELSE r[where.col] # Value(where.param)
              target == {r \in P : Matches(r)}
              Assigned(r) ==
                  [c \in DOMAIN r |->
                      IF \E i \in DOMAIN set : set[i].col = c
                      THEN Value(set[CHOOSE i \in DOMAIN set : set[i].col = c].param)
                      ELSE r[c]]
              new == {Assigned(r) : r \in target}
              after == (P \ target) \cup new
              fits == \A i \in DOMAIN set :
                         set[i].col \in ProfileCols => Fits(set[i].col, values[set[i].param])
              kept == /\ Cardinality(after) = Cardinality(P)
                      /\ \A r \in new : ProfileRowOk(U, after \ {r}, r)
              done == [ok |-> TRUE, profiles |-> after]
          IN IF ~ fits THEN (IF target = {} THEN {done, error} ELSE {error})
             ELSE IF kept THEN {done}
             ELSE {error}

\* await pool.query(query, values): the outcomes the profile statement can
\* have, over the orders of the eligible keys
UpdateProfiles(U, P, patch, id) ==
    UNION {ExecUpdate(U, P, BuildQuery(patch, order, id)) :
              order \in Orders(EligibleKeys(patch))}

PutProfile(p) ==
    /\ pc[p] = "put_profile"
    /\ UNCHANGED <<users, seq, now, nreq, legacy, mig>>
    /\ \E r \in UpdateProfiles(users, profiles, loc[p].body.profile[1], loc[p].user.id) :
          IF r.ok
          THEN /\ profiles' = r.profiles
               /\ Answer(p, Updated)
          ELSE /\ UNCHANGED profiles
               /\ Answer(p, UpdateError)

----------------------------------------------------------------------------
(* The clock *)

\* a request takes less than one tick: the clock moves between requests
Tick ==
    /\ now + TickHours <= MaxTime
    /\ \A p \in Procs : pc[p] = "idle"
    /\ now' = now + TickHours
    /\ UNCHANGED <<users, profiles, seq, pc, loc, resp, held, nreq, legacy, mig>>

----------------------------------------------------------------------------
(* migrate-db.js *)

LegacyUser(id, email) ==
    [id |-> id, name |-> "L", email |-> email, password |-> Hash("p1"),
     role |-> "client", phone |-> NULL, created_at |-> NoTime, updated_at |-> NoTime]

\* the contents of ./backend/database/clients.db the copier may find
LegacySets ==
    { [users |-> <<LegacyUser(2, "a@x.com")>>,
       profiles |-> <<[user_id |-> 2, age |-> "45", medications |-> "none"]>>] }

\* again is kept for the properties and read by no statement: the run in
\* progress is not the first one of this behaviour
MigIdle == [pc |-> "idle", rows |-> <<>>, i |-> 1, again |-> FALSE]

\* the copier past the loops it has finished: migrateUsers resolves and
\* migrateProfiles fetches SELECT * FROM profiles from SQLite; migrateProfiles
\* resolves and the connections are closed
MigAdvance(m) ==
    LET m1 == IF m.pc = "users" /\ m.i > Len(m.rows)
              THEN [m EXCEPT !.pc = "profiles", !.rows = legacy.profiles, !.i = 1]
              ELSE m
    IN IF m1.pc = "profiles" /\ m1.i > Len(m1.rows)
       THEN [m1 EXCEPT !.pc = "done", !.rows = <<>>, !.i = 1, !.again = FALSE]
       ELSE m1

MigFailed(m) == [m EXCEPT !.pc = "failed", !.rows = <<>>, !.i = 1, !.again = FALSE]

\* runMigration: both CREATE TABLE IF NOT EXISTS find the tables present;
\* migrateUsers fetches SELECT * FROM users from SQLite
MigStart ==
    /\ mig.pc \in {"idle", "done", "failed"}
    /\ mig' = MigAdvance([pc |-> "users", rows |-> legacy.users, i |-> 1,
                           again |-> mig.pc # "idle"])
    /\ UNCHANGED <<users, profiles, seq, now, pc, loc, resp, held, nreq, legacy>>

\* INSERT INTO users (id, ...) VALUES (...) ON CONFLICT (email) DO NOTHING
UpsertUser(U, user, t) ==
    LET row == [user EXCEPT
                  !.created_at = IF user.created_at = NoTime THEN t ELSE @,
                  !.updated_at = IF user.updated_at = NoTime THEN t ELSE @]
    IN IF \E o \in U : o.email = row.email
       THEN [ok |-> TRUE, users |-> U]
       ELSE IF UserRowOk(U, row)
            THEN [ok |-> TRUE, users |-> U \cup {row}]
            ELSE [ok |-> FALSE, users |-> U]

\* one turn of the loop over the legacy users
MigUser ==
    /\ mig.pc = "users"
    /\ LET r == UpsertUser(users, mig.rows[mig.i], now)
       IN /\ users' = r.users
          /\ mig' = IF r.ok THEN MigAdvance([mig EXCEPT !.i = @ + 1])
                    ELSE MigFailed(mig)
    /\ UNCHANGED <<profiles, seq, now, pc, loc, resp, held, nreq, legacy>>

\* faulty variant: ON CONFLICT (user_id) DO NOTHING
UpsertProfileKeepExisting(U, P, profile) ==
    IF \E r \in P : r.user_id = profile.user_id
    THEN [ok |-> TRUE, profiles |-> P]
    ELSE IF ProfileRowOk(U, P, profile)
         THEN [ok |-> TRUE, profiles |-> P \cup {profile}]
         ELSE [ok |-> FALSE, profiles |-> P]

\* INSERT INTO profiles (...) VALUES (...) ON CONFLICT (user_id) DO UPDATE SET
\*   every column = EXCLUDED.column
UpsertProfile(U, P, profile) ==
    LET others == {r \in P : r.user_id # profile.user_id}
    IN IF ProfileRowOk(U, others, profile)
       THEN [ok |-> TRUE, profiles |-> others \cup {profile}]
       ELSE [ok |-> FALSE, profiles |-> P]

\* one turn of the loop over the legacy profiles
MigProfile ==
    /\ mig.pc = "profiles"
    /\ LET r == UpsertProfile(users, profiles, mig.rows[mig.i])
       IN /\ profiles' = r.profiles
          /\ mig' = IF r.ok THEN MigAdvance([mig EXCEPT !.i = @ + 1])
                    ELSE MigFailed(mig)
    /\ UNCHANGED <<users, seq, now, pc, loc, resp, held, nreq, legacy>>

----------------------------------------------------------------------------
(* The system *)

\* the tables as initDb leaves them in a new database
Init ==
    /\ users = {}
    /\ profiles = {}
    /\ seq = 1
    /\ now = 0
    /\ pc = [p \in Procs |-> "idle"]
    /\ loc = [p \in Procs |-> NoLoc]
    /\ resp = [p \in Procs |-> NoResp]
    /\ held = [p \in Procs |-> <<>>]
    /\ nreq = 0
    /\ legacy \in LegacySets
    /\ mig = MigIdle

Register(p) ==
    \/ \E body \in RegisterBodies : RegisterStart(p, body)
    \/ RegisterInsertUser(p)
    \/ RegisterInsertProfile(p)

Login(p) == \E body \in LoginBodies : LoginRequest(p, body)

GetProfileRoute(p) ==
    \/ \E hdr \in Headers(p) : GetStart(p, hdr)
    \/ GetProfile(p)

UpdateProfile(p) ==
    \/ \E hdr \in Headers(p) : \E body \in BodiesWith(hdr) : PutStart(p, hdr, body)
    \/ PutUser(p)
    \/ PutProfile(p)

Migration == MigStart \/ MigUser \/ MigProfile

Next ==
    \/ \E p \in Procs : Register(p)
    \/ \E p \in Procs : Login(p)
    \/ \E p \in Procs : GetProfileRoute(p)
    \/ \E p \in Procs : UpdateProfile(p)
    \/ Migration
    \/ Tick

Spec == Init /\ [][Next]_vars

----------------------------------------------------------------------------
(* The environment of the program, outside Spec *)

\* a pool.query a handler awaits is rejected (connection lost, timeout): the
\* handler's catch block answers 500 and nothing is written
ServerError(p) ==
    CASE pc[p] \in {"reg_insert_user", "reg_insert_profile"} ->
            Json("register", 500, "Server error during registration")
      [] pc[p] = "get_profile" -> Json("get", 500, "Server error fetching profile")
      [] pc[p] \in {"put_user", "put_profile"} -> UpdateError

QueryFails(p) ==
    /\ pc[p] # "idle"
    /\ Answer(p, ServerError(p))
    /\ UNCHANGED <<users, profiles, seq, now, nreq, legacy, mig>>

\* an operator deletes a user row by hand: DELETE FROM users WHERE id = ...,
\* with profiles.user_id REFERENCES users(id) ON DELETE CASCADE
DeleteUser(id) ==
    /\ \E u \in users : u.id = id
    /\ users' = {u \in users : u.id # id}
    /\ profiles' = {r \in profiles : r.user_id # id}
    /\ UNCHANGED <<seq, now, pc, loc, resp, held, nreq, legacy, mig>>

StoreFault == \E p \in Procs : QueryFails(p)

AdminDelete == \E u \in users : DeleteUser(u.id)

\* the program with a store that may reject a statement
SpecFault == Init /\ [][Next \/ StoreFault]_vars

\* the program with an operator who may delete users
SpecAdmin == Init /\ [][Next \/ AdminDelete]_vars

----------------------------------------------------------------------------
(* The copier alone, the server at rest: any target store, any legacy data *)

MaxId == 2            \* ids of the rows of the target store and the legacy store
MaxLegacyRows == 2    \* rows of a legacy table

Ids == 1..MaxId

\* a row of the target store as Register leaves it
TargetUser(id, email) == NewUserRow(id, "A", email, Hash("p1"), "client", UNDEF, 0)

\* a profile row as Register leaves it, or after an UpdateProfile
TargetProfiles(uid) ==
    {EmptyProfile(uid), [user_id |-> uid, age |-> "30", medications |-> NULL]}

\* the stores the schema admits: with and without profile rows
TargetStores ==
    {st \in {[users |-> U, profiles |-> P] :
                U \in SUBSET {TargetUser(i, e) : i \in Ids, e \in Emails},
                P \in SUBSET UNION {TargetProfiles(i) : i \in Ids}} :
        /\ \A r \in st.users : UserRowOk(st.users \ {r}, r)
        /\ \A r \in st.profiles : ProfileRowOk(st.users, st.profiles \ {r}, r)}

SeqsUpTo(S, n) == UNION {[1..k -> S] : k \in 0..n}

\* SQLite keeps id and email unique, does not enforce the declared widths
\* and, by default, does not enforce foreign keys
LegacyInputs ==
    {l \in {[users |-> us, profiles |-> ps] :
               us \in SeqsUpTo({LegacyUser(i, e) : i \in Ids, e \in Emails}, MaxLegacyRows),
               ps \in SeqsUpTo({[user_id |-> i, age |-> a, medications |-> "none"] :
                                  i \in Ids, a \in {"45", LongAge}}, MaxLegacyRows)} :
        /\ \A i, j \in DOMAIN l.users :
              i # j => /\ l.users[i].id # l.users[j].id
                       /\ l.users[i].email # l.users[j].email
        /\ \A i, j \in DOMAIN l.profiles :
              i # j => l.profiles[i].user_id # l.profiles[j].user_id}

InitMig ==
    /\ \E st \in TargetStores : users = st.users /\ profiles = st.profiles
    /\ seq = MaxId + 1
    /\ now = 0
    /\ pc = [p \in Procs |-> "idle"]
    /\ loc = [p \in Procs |-> NoLoc]
    /\ resp = [p \in Procs |-> NoResp]
    /\ held = [p \in Procs |-> <<>>]
    /\ nreq = 0
    /\ legacy \in LegacyInputs
    /\ mig = MigIdle

SpecMig == InitMig /\ [][Migration]_vars

----------------------------------------------------------------------------
(* Properties *)

Missing(body) == Falsy(body.name) \/ Falsy(body.email) \/ Falsy(body.password)

Holders(U, email) == {u \in U : u.email = email}

\* C1 (as claimed): once a user row with email e exists, every Register
\* request carrying e that is answered from then on is answered 400, and
\* exactly one row holds e afterwards. The step that answers is RegisterStart
\* (the existence check finds the row) or RegisterInsertUser (the request
\* passed the check before the row was there).
C1_DuplicateRegisterIs400 ==
    [][\A p \in Procs :
        /\ \A body \in RegisterBodies :
             (RegisterStart(p, body) /\ ~ Missing(body)
                /\ Holders(users, body.email) # {})
             => /\ resp'[p].status = 400
                /\ Cardinality(Holders(users', body.email)) = 1
        /\ (RegisterInsertUser(p) /\ Holders(users, loc[p].email) # {})
             => /\ resp'[p].status = 400
                /\ Cardinality(Holders(users', loc[p].email)) = 1
      ]_vars

\* C2 (as claimed): an UpdateProfile request whose user patch names an email
\* that another user's row holds as the request arrives is answered 400 and
\* leaves the users relation as it is, whatever email the token carries.
C2_TakenEmailIs400 ==
    [][\A p \in Procs :
        /\ \A hdr \in Headers(p) : \A body \in UpdateBodies :
             (PutStart(p, hdr, body) /\ Authenticate(hdr, now).status = 0
                /\ body.user # <<>>
                /\ EmailCheck(users, body.user[1].email,
                              Authenticate(hdr, now).user[1].id) # {}
                /\ pc'[p] = "idle")
             => resp'[p].status = 400
        /\ (PutUser(p) /\ loc[p].taken)
             => /\ pc'[p] = "idle" /\ resp'[p].status = 400
                /\ users' = users
      ]_vars

\* what a profile row is after a patch: the columns whose patch value is
\* neither undefined nor null take the patch value, the others keep theirs
PatchedRow(r, patch) ==
    [c \in DOMAIN r |->
        IF c \in DOMAIN patch /\ patch[c] # UNDEF /\ patch[c] # NULL
        THEN patch[c] ELSE r[c]]

PatchedProfiles(P, patch, id) ==
    {IF r.user_id = id THEN PatchedRow(r, patch) ELSE r : r \in P}

HasEligible(patch) == \E c \in DOMAIN patch : patch[c] # UNDEF /\ patch[c] # NULL

PatchFits(patch) ==
    \A c \in DOMAIN patch : (patch[c] # UNDEF /\ patch[c] # NULL) => Fits(c, patch[c])

\* C3 (as claimed): the profile statement of UpdateProfile sets exactly the
\* columns whose patch value is neither undefined nor null, for every patch
\* over the known columns.
C3_PatchAlwaysApplied ==
    [][\A p \in Procs :
        (PutProfile(p) /\ DOMAIN loc[p].body.profile[1] \subseteq ProfileCols) =>
          profiles' = PatchedProfiles(profiles, loc[p].body.profile[1], loc[p].user.id)
      ]_vars

\* C3 (amended): for the caller's stored profile row and a patch over the
\* known columns: when every eligible value fits the declared width of its
\* column, the profile statement sets exactly the eligible columns of that
\* row, leaves every other column and every other row as it was, is
\* answered 200, and the same patch applied again changes nothing; when a
\* value is wider than its column the answer is 500 and nothing changes; a
\* patch with no eligible key never reaches the profile statement.
C3_PartialUpdate ==
    [][\A p \in Procs :
        /\ (PutProfile(p) /\ DOMAIN loc[p].body.profile[1] \subseteq ProfileCols) =>
             LET patch == loc[p].body.profile[1]
                 id == loc[p].user.id
             IN /\ profiles' \in {profiles, PatchedProfiles(profiles, patch, id)}
                /\ (\E r \in profiles : r.user_id = id) =>
                     IF PatchFits(patch)
                     THEN /\ profiles' = PatchedProfiles(profiles, patch, id)
                          /\ resp'[p].status = 200
                          /\ UpdateProfiles(users, profiles', patch, id) =
                               {[ok |-> TRUE, profiles |-> profiles']}
                     ELSE /\ profiles' = profiles
                          /\ resp'[p].status = 500
        /\ (pc'[p] = "put_profile" /\ pc[p] # "put_profile")
             => HasEligible(loc'[p].body.profile[1])
      ]_vars

\* C3 witness: a patch that names age alone (or age beside a null) was
\* applied to the row copied from the legacy store and answered 200: age is
\* the patch's, medications still the legacy value
C3_Witness ==
    \E p \in Procs :
        /\ resp[p].op = "put" /\ resp[p].status = 200
        /\ held[p] # <<>>
        /\ \E r \in profiles :
              r.user_id = held[p][1].id /\ r.age = "30" /\ r.medications = "none"

\* C4 (as claimed): a Register request with name, email and password whose
\* email no row held when it arrived ends with 201, and the claims of the
\* token equal the id, email and role of the body and of the stored row.
C4_FreshRegisterIs201 ==
    [][\A p \in Procs :
        ((RegisterInsertUser(p) \/ RegisterInsertProfile(p)) /\ pc'[p] = "idle")
        => /\ resp'[p].status = 201
           /\ LET t == resp'[p].token[1]
                  b == resp'[p].user[1]
              IN /\ t.id = b.id /\ t.email = b.email /\ t.role = b.role
                 /\ \E u \in users' :
                      u.id = t.id /\ u.email = t.email /\ u.role = t.role
      ]_vars

\* C5: Login with email and password answers 200, with a token carrying the
\* stored row's id, email and role, exactly when a row with that email
\* exists and its stored hash is the hash of the password; every other
\* answer is the one 401 response, the same for an unknown email and for a
\* wrong password; and Login writes nothing.
C5_Login ==
    [][\A p \in Procs : \A body \in LoginBodies :
        (LoginRequest(p, body) /\ ~ Falsy(body.email) /\ ~ Falsy(body.password))
        => LET match == {u \in users : u.email = body.email
                                       /\ u.password = Hash(body.password)}
           IN /\ resp'[p].status = 200 <=> match # {}
              /\ resp'[p].status = 200 =>
                   \E u \in match :
                      /\ resp'[p].token[1].id = u.id
                      /\ resp'[p].token[1].email = u.email
                      /\ resp'[p].token[1].role = u.role
                      /\ resp'[p].token[1].sig = "server"
              /\ resp'[p].status # 200 =>
                   resp'[p] = Json("login", 401, "Invalid email or password")
              /\ UNCHANGED <<users, profiles, seq>>
      ]_vars

\* C5 witness: one client logged in and the other was refused
C5_Witness ==
    /\ resp["c1"].op = "login" /\ resp["c1"].status = 200
    /\ resp["c2"].op = "login" /\ resp["c2"].status = 401
    /\ \A p \in Procs : pc[p] = "idle"

\* C6: on GET and PUT /api/profile a request without a token is answered
\* 401 and one whose token is signed by another secret, or is TokenTTL hours
\* old or older, is answered 403; in both cases the request ends there and
\* the store is unchanged; otherwise the handler runs, and runs with the id,
\* email and role the token carries.
Rejected(p, status) ==
    /\ resp'[p].status = status
    /\ pc'[p] = "idle"
    /\ UNCHANGED <<users, profiles, seq>>

Gate(p, hdr) ==
    LET tok == BearerToken(hdr)
    IN IF tok = <<>>
       THEN Rejected(p, 401)
       ELSE IF tok[1].sig # "server" \/ now >= tok[1].iat + TokenTTL
            THEN Rejected(p, 403)
            ELSE /\ resp'[p].status \notin {401, 403}
                 /\ pc'[p] # "idle" =>
                      /\ loc'[p].user.id = tok[1].id
                      /\ loc'[p].user.email = tok[1].email
                      /\ loc'[p].user.role = tok[1].role

C6_TokenGate ==
    [][\A p \in Procs : \A hdr \in Headers(p) :
        /\ GetStart(p, hdr) => Gate(p, hdr)
        /\ \A body \in BodiesWith(hdr) : PutStart(p, hdr, body) => Gate(p, hdr)
      ]_vars

\* C6 witness: a client that sent its own token, signed by the server, at
\* or after the token's expiry was answered 403
C6_Witness ==
    \E p \in Procs :
        /\ resp[p].op \in {"get", "put"} /\ resp[p].status = 403
        /\ Len(resp[p].hdr) = 2
        /\ resp[p].hdr[2].sig = "server" /\ now >= resp[p].hdr[2].exp

\* C7: GetProfile with a valid token for id u answers 404 when the query
\* for the user row returned nothing; 200 with an empty object as profile
\* when the user row was there and no profile row is; otherwise 200 with
\* the public fields of that user row (no password) and that user's profile
\* row; and it writes nothing.
PublicFields == {"id", "name", "email", "role", "phone", "createdAt", "updatedAt"}

C7_GetProfile ==
    [][\A p \in Procs :
        /\ \A hdr \in Headers(p) :
             (GetStart(p, hdr) /\ pc'[p] = "get_profile")
             => \A x \in loc'[p].userResult :
                   \E u \in users : u.id = loc'[p].user.id /\ x.id = u.id
                                    /\ x.name = u.name /\ x.email = u.email
                                    /\ x.role = u.role /\ x.phone = u.phone
        /\ (\E hdr \in Headers(p) : GetStart(p, hdr) /\ pc'[p] = "get_profile")
             => (loc'[p].userResult = {} <=> ~ \E u \in users : u.id = loc'[p].user.id)
        /\ (pc[p] = "get_profile" /\ pc'[p] = "idle") =>
             LET id == loc[p].user.id
                 mine == {r \in profiles : r.user_id = id}
                 r == resp'[p]
             IN /\ UNCHANGED <<users, profiles, seq>>
                /\ loc[p].userResult = {} => r.status = 404
                /\ loc[p].userResult # {} =>
                     /\ r.status = 200
                     /\ DOMAIN r.user[1] = PublicFields
                     /\ \E x \in loc[p].userResult :
                          /\ r.user[1].id = id /\ x.id = id
                          /\ r.user[1].name = x.name /\ r.user[1].email = x.email
                          /\ r.user[1].role = x.role /\ r.user[1].phone = x.phone
                          /\ r.user[1].createdAt = x.created_at
                          /\ r.user[1].updatedAt = x.updated_at
                     /\ mine = {} => DOMAIN r.profile[1] = {}
                     /\ mine # {} => r.profile[1] \in mine
      ]_vars

\* C7 witness: a client holding a token for a user that is gone was answered 404
C7_Witness ==
    \E p \in Procs :
        /\ resp[p].op = "get" /\ resp[p].status = 404
        /\ held[p] # <<>>
        /\ ~ \E u \in users : u.id = held[p][1].id

\* C8: every profile row's user_id is the id of a user row, no user has two
\* profile rows, and no two user rows share an email (or an id).
C8_StoreInvariant ==
    /\ \A r \in profiles : \E u \in users : u.id = r.user_id
    /\ \A r1, r2 \in profiles : r1.user_id = r2.user_id => r1 = r2
    /\ \A u1, u2 \in users : (u1.email = u2.email \/ u1.id = u2.id) => u1 = u2

\* C8 witness: a registered user and a copied user, each with a profile
\* row, one of them changed by UpdateProfile, the copier done
C8_Witness ==
    /\ Cardinality(users) = 2 /\ Cardinality(profiles) = 2
    /\ mig.pc = "done"
    /\ \E p \in Procs : resp[p].op = "put" /\ resp[p].status = 200
    /\ \E u \in users : u.name = "B"

\* C9 (as claimed): the user statement of UpdateProfile, for a patch whose
\* email no other user holds, is not answered with an error and leaves the
\* caller's row with the patch's name, email and phone and a fresh
\* updated_at, for every patch, one that leaves out a field included.
C9_UserPatchApplied ==
    [][\A p \in Procs :
        (PutUser(p)
           /\ EmailCheck(users, PgParam(loc[p].body.user[1].email), loc[p].user.id) = {}
           /\ \E u \in users : u.id = loc[p].user.id)
        => LET patch == loc[p].body.user[1]
           IN /\ pc'[p] = "idle" => resp'[p].status = 200
              /\ \E u \in users' :
                    /\ u.id = loc[p].user.id
                    /\ u.updated_at = now
                    /\ \A k \in {"name", "email", "phone"} :
                          patch[k] # UNDEF => u[k] = patch[k]
      ]_vars

\* C10 (as claimed): Register answers 201 only in the step that inserts the
\* empty profile row of a user row that is stored; when it is answered
\* otherwise after the user insert, the answer is 500, the user row stays,
\* and that user has no profile row.
C10_Created ==
    \A p \in Procs :
        (resp'[p].op = "register" /\ resp'[p].status = 201 /\ resp'[p] # resp[p])
        => LET id == resp'[p].user[1].id
           IN /\ \E u \in users' : u.id = id
              /\ EmptyProfile(id) \in profiles'
              /\ EmptyProfile(id) \notin profiles
              /\ pc[p] = "reg_insert_profile"

C10_OrphanLeftBehind ==
    [][/\ C10_Created
       /\ \A p \in Procs :
            (pc[p] = "reg_insert_profile" /\ pc'[p] = "idle"
               /\ resp'[p].status # 201)
            => LET id == loc[p].newUser.id
               IN /\ resp'[p].status = 500
                  /\ users' = users
                  /\ \E u \in users' : u.id = id
                  /\ ~ \E r \in profiles' : r.user_id = id
      ]_vars

\* C10 (amended): Register answers 201 only in the step that inserts the
\* empty profile row of a user row that is stored; when it is answered
\* otherwise after the user insert, the answer is 500, the user row stays
\* (no rollback) and the request has added no profile row, so the user has
\* a profile row only if another writer inserted one; a user row without a
\* profile row is reachable.
C10_NoRollback ==
    [][/\ C10_Created
       /\ \A p \in Procs :
            (pc[p] = "reg_insert_profile" /\ pc'[p] = "idle"
               /\ resp'[p].status # 201)
            => LET id == loc[p].newUser.id
               IN /\ resp'[p].status = 500
                  /\ users' = users
                  /\ \E u \in users' : u.id = id
                  /\ profiles' = profiles
      ]_vars

\* C10 witness: nothing is in flight, the copier never ran, a Register was
\* answered 500, and a user row has no profile row
C10_Witness ==
    /\ \A p \in Procs : pc[p] = "idle"
    /\ mig.pc = "idle"
    /\ \E p \in Procs : resp[p].op = "register" /\ resp[p].status = 500
    /\ \E u \in users : ~ \E r \in profiles : r.user_id = u.id

----------------------------------------------------------------------------
(* C11: the copier *)

\* no step of the copier changes or removes a user row
UsersKept == users \subseteq users'

\* a legacy user whose email the target holds is passed over without error
SkippedSilently ==
    mig.pc = "users" =>
        LET user == mig.rows[mig.i]
        IN (\E o \in users : o.email = user.email) =>
              users' = users /\ mig'.pc # "failed"

\* a run after the first one changes nothing
RerunChangesNothing == mig.again => UNCHANGED <<users, profiles>>

\* the store takes a legacy profile: a user row of that id, values within width
Accepted(profile) ==
    /\ \E u \in users : u.id = profile.user_id
    /\ \A c \in ProfileCols : Fits(c, profile[c])

\* C11 as stated: for any legacy data and any target store a run of the copier
\* changes no user row, passes silently over a legacy user whose email is
\* present, leaves every legacy profile whose user_id has a profile row
\* overwritten with the legacy values, and a second run changes nothing
C11_AlwaysOverwritten ==
    [][/\ UsersKept
       /\ SkippedSilently
       /\ (mig.pc \in {"users", "profiles"} /\ mig'.pc \in {"done", "failed"}) =>
             \A i \in DOMAIN legacy.profiles :
                (\E r \in profiles' : r.user_id = legacy.profiles[i].user_id) =>
                    legacy.profiles[i] \in profiles'
       /\ RerunChangesNothing]_vars

\* C11, amended: a run of the copier changes no user row and passes silently
\* over a legacy user whose email is present; each profile statement the run
\* reaches and the store accepts leaves the legacy row as the only row of its
\* user_id, every field overwritten, and the other rows as they were; the
\* first statement the store rejects ends the run and changes nothing; a run
\* that ends without error leaves every legacy profile in the store; a second
\* run on the same legacy data changes nothing
C11_Migration ==
    [][/\ UsersKept
       /\ SkippedSilently
       /\ mig.pc = "profiles" =>
             LET profile == mig.rows[mig.i]
             IN IF Accepted(profile)
                THEN /\ profiles' = {r \in profiles : r.user_id # profile.user_id}
                                       \cup {profile}
                     /\ mig'.pc # "failed"
                ELSE /\ profiles' = profiles
                     /\ mig'.pc = "failed"
       /\ mig'.pc = "done" =>
             \A i \in DOMAIN legacy.profiles : legacy.profiles[i] \in profiles'
       /\ RerunChangesNothing]_vars

\* C11 witness: a second run has passed over a legacy user whose email a row
\* of another id holds, and stands at a legacy profile whose user_id has a
\* profile row, that of a user the copier did not insert, carrying the legacy
\* values
C11_Witness ==
    /\ mig.again
    /\ mig.pc = "profiles"
    /\ mig.rows[mig.i] \in profiles
    /\ \E u \in users : u.id = mig.rows[mig.i].user_id /\ u.name = "A"
    /\ \E i \in DOMAIN legacy.users : \E o \in users :
          o.email = legacy.users[i].email /\ o.id # legacy.users[i].id

----------------------------------------------------------------------------
(* C12: what an UpdateProfile request can reach *)

\* the rows of the other users: user rows and profile rows not owned by id
OthersRows(U, P, id) ==
    [users |-> {r \in U : r.id # id}, profiles |-> {r \in P : r.user_id # id}]

\* C12 (as claimed): an UpdateProfile request authenticated as user u changes
\* at most the user row with id u and the profile row with user_id u,
\* whatever the keys and values of its patches; the rows of every other user
\* are the same after each of its statements as before; and GetProfile for
\* u answers with u's user row and u's profile row or none
C12_Isolation ==
    [][\A p \in Procs :
        /\ (PutUser(p) \/ PutProfile(p)) =>
              OthersRows(users', profiles', loc[p].user.id)
                = OthersRows(users, profiles, loc[p].user.id)
        /\ (pc[p] = "idle" /\ pc'[p] \in {"put_user", "put_profile"}) =>
              UNCHANGED <<users, profiles>>
        /\ (GetProfile(p) /\ resp'[p].status = 200) =>
              /\ resp'[p].user[1].id = loc[p].user.id
              /\ resp'[p].profile[1] \in
                    {EmptyObject} \cup {r \in profiles : r.user_id = loc[p].user.id}
      ]_vars

====
